---- MODULE Spec2Model ----
(***************************************************************************)
(* The PFor codec of headers/pfor.h: width selection, per-block patching   *)
(* with compulsory exceptions, block headers, and the array driver.        *)
(*                                                                         *)
(* A uint32_t is modelled as the set of its one-bits, a subset of 0..31:   *)
(* the word 5 is {0, 2}, 0xFFFFFFFF is 0..31.  Bitwise or is union, a      *)
(* shift moves the positions, and truncation to 32 bits intersects with    *)
(* 0..31.  C pointers into a buffer are 0-based offsets; the sequences     *)
(* that model buffers are 1-based, so offset p is element p + 1.           *)
(***************************************************************************)
EXTENDS Integers, Sequences, FiniteSets, TLC

\* ------------------------------------------------------------ constants

BlockSizeInUnitsOfPackSize == 4

PACKSIZE == 32

BlockSize == BlockSizeInUnitsOfPackSize * PACKSIZE

\* util.h: constexpr uint32_t constexprbits(uint32_t x)
\*   { return x < 2 ? x : 1 + constexprbits(x >> 1); }
RECURSIVE constexprbits(_)
constexprbits(x) == IF x < 2 THEN x ELSE 1 + constexprbits(x \div 2)

blocksizeinbits == constexprbits(BlockSize)

defaultsamplesize == 64 * 1024

\* ---------------------------------------------------------------- words

WordBits == 0 .. 31

\* The uint32_t holding the number n, 0 <= n < 2^31.
Bits(n) == {j \in 0 .. 30 : (n \div (2 ^ j)) % 2 = 1}

\* The number a uint32_t holds, as a size_t.
RECURSIVE Num(_)
Num(w) ==
    IF w = {} THEN 0
    ELSE LET j == CHOOSE x \in w : TRUE IN (2 ^ j) + Num(w \ {j})

\* w << s and w >> s on 32 bits.
ShiftLeft(w, s) == {j + s : j \in w} \cap WordBits

ShiftRight(w, s) == {j - s : j \in {x \in w : x >= s}}

\* util.h asmbits: the bit length of a word, 0 for 0.
asmbits(w) == IF w = {} THEN 0 ELSE 1 + CHOOSE j \in w : \A x \in w : x <= j

\* in[k] >= maxgap with maxgap = 1U << bit, bit < 32.
AtLeastMaxgap(w, bit) == \E j \in w : j >= bit

\* ------------------------------------------- bitpacking.h (fastpack, fastunpack)

\* What the b-bit slot of one value holds after packing.  A value < 2^bit is
\* stored as it is.  The packing contract leaves a value >= 2^bit undefined:
\* its own slot then holds the low bits, zeros or ones, as `slotfill` says.
Stored(v, bit, fill) ==
    IF ~AtLeastMaxgap(v, bit) THEN v
    ELSE IF fill = "low" THEN v \cap (0 .. bit - 1)
    ELSE IF fill = "ones" THEN 0 .. bit - 1
    ELSE {}

\* fastpack(in, out, bit): PACKSIZE values into `bit` words; value n
\* (0-based) occupies bits n*bit .. n*bit + bit - 1 of the bit stream.
fastpack(vals, bit, fill) ==
    [w \in 1 .. bit |->
        {q \in WordBits :
            LET p == 32 * (w - 1) + q
            IN  (p % bit) \in Stored(vals[(p \div bit) + 1], bit, fill)}]

\* fastunpack(in, out, bit): the inverse, total on any `bit` words.
fastunpack(words, bit) ==
    [n \in 1 .. PACKSIZE |->
        {t \in 0 .. bit - 1 :
            LET p == (n - 1) * bit + t
            IN  (p % 32) \in words[(p \div 32) + 1]}]

\* ----------------------------------------------------- packblock, unpackblock

RECURSIVE packloop(_, _, _, _)
packloop(source, bit, fill, j) ==
    IF j = BlockSize THEN << >>
    ELSE fastpack(SubSeq(source, j + 1, j + PACKSIZE), bit, fill)
            \o packloop(source, bit, fill, j + PACKSIZE)

packblock(source, bit, fill) == packloop(source, bit, fill, 0)

RECURSIVE unpackloop(_, _, _)
unpackloop(source, bit, j) ==
    IF j = BlockSize THEN << >>
    ELSE fastunpack(SubSeq(source, 1, bit), bit)
            \o unpackloop(SubSeq(source, bit + 1, Len(source)), bit, j + PACKSIZE)

unpackblock(source, bit) == unpackloop(source, bit, 0)

\* ------------------------------------------------------------------ loops

\* n iterations of a loop body.  A body leaves the state alone once its
\* loop condition is false, so n only has to bound the iteration count.
\* The recursion halves n, and the state after the first half is bound as
\* a value before the second half runs, which keeps the evaluation shallow.
RECURSIVE Repeat(_, _, _)
Repeat(Body(_), st, n) ==
    IF n = 0 THEN st
    ELSE IF n = 1 THEN Body(st)
    ELSE CHOOSE r \in {Repeat(Body, mid, n - (n \div 2)) :
                          mid \in {Repeat(Body, st, n \div 2)}} : TRUE

\* ------------------------------------------------------- compressblockPFOR

\* Lines 114-117: miss[exceptcounter] = k; exceptcounter += (in[k] >= maxgap).
\* miss holds the first exceptcounter entries of the scratch buffer.
scanmiss(block, bit) ==
    LET body(st) ==
            IF st.k = BlockSize THEN st
            ELSE [miss |-> IF AtLeastMaxgap(block[st.k + 1], bit)
                           THEN Append(st.miss, st.k) ELSE st.miss,
                  k    |-> st.k + 1]
    IN  Repeat(body, [miss |-> << >>, k |-> 0], BlockSize).miss

\* A gap code that is the plain distance cur - prev.  With it in place of
\* GapCode the decoder's walk overshoots the next exception.
GapCodeUnbiased(cur, prev) == cur - prev

\* The gap code written at the previous link of the chain (lines 141, 148).
GapCode(cur, prev) == cur - prev - 1

\* A compulsory exception one position short of prev + maxgap.
CompulsoryPositionShort(prev, maxgap) == prev + maxgap - 1

\* Where a compulsory exception goes (line 135).
CompulsoryPosition(prev, maxgap) == prev + maxgap

\* A saturated gap code of maxgap, which does not fit b bits.
SaturatedGapFull(maxgap) == maxgap

\* The gap code left at the link before a compulsory exception (line 137).
SaturatedGap(maxgap) == maxgap - 1

\* maxgap < BlockSize (line 129); 1U << 31 is not below BlockSize.
SmallMaxgap(bit) == bit < 31 /\ 2 ^ bit < BlockSize

\* One step of the loops of lines 129-151 over miss[1 .. exceptcounter - 1],
\* st = [codedcopy, prev, exceptions, positions, i]: a compulsory exception
\* (lines 133-139) while cur > maxgap + prev, else the exception at cur
\* (lines 140-142, 147-149).  positions lists the in-block positions whose
\* values were appended to the exception list, compulsory ones included.
chainstep(st, miss, bit) ==
    IF st.i >= Len(miss) THEN st
    ELSE LET cur == miss[st.i + 1]
         IN  IF SmallMaxgap(bit) /\ cur > (2 ^ bit) + st.prev
             THEN LET compulcur == CompulsoryPosition(st.prev, 2 ^ bit)
                  IN  [codedcopy  |-> [st.codedcopy EXCEPT
                                          ![st.prev + 1] = Bits(SaturatedGap(2 ^ bit))],
                       prev       |-> compulcur,
                       exceptions |-> Append(st.exceptions, st.codedcopy[compulcur + 1]),
                       positions  |-> Append(st.positions, compulcur),
                       i          |-> st.i]
             ELSE [codedcopy  |-> [st.codedcopy EXCEPT
                                      ![st.prev + 1] = Bits(GapCode(cur, st.prev))],
                   prev       |-> cur,
                   exceptions |-> Append(st.exceptions, st.codedcopy[cur + 1]),
                   positions  |-> Append(st.positions, cur),
                   i          |-> st.i + 1]

\* The value returned for a block with exceptions (lines 125, 153).
FirstExcept(miss) == miss[1]

\* compressblockPFOR(in, outputbegin, b, exceptions): the words written at
\* outputbegin, the exception list after the call, and the return value.
\* `handed` is the block given to packblock (empty when b = 32 copies the
\* block), `positions` the in-block positions of the values appended.
compressblockPFOR(block, bit, exceptions, fill) ==
    IF bit = 32
    THEN [output |-> block, exceptions |-> exceptions, firstexcept |-> BlockSize,
          handed |-> << >>, positions |-> << >>]
    ELSE LET miss == scanmiss(block, bit)
         IN  IF Len(miss) = 0
             THEN [output |-> packblock(block, bit, fill), exceptions |-> exceptions,
                   firstexcept |-> BlockSize, handed |-> block, positions |-> << >>]
             ELSE LET firstexcept == FirstExcept(miss)
                      \* codedcopy.assign(in, in + BlockSize)
                      st0 == [codedcopy  |-> SubSeq(block, 1, BlockSize),
                              prev       |-> firstexcept,
                              exceptions |-> Append(exceptions, block[firstexcept + 1]),
                              positions  |-> <<firstexcept>>,
                              i          |-> 1]
                      body(st) == chainstep(st, miss, bit)
                      fin == Repeat(body, st0, BlockSize)
                  IN  [output |-> packblock(fin.codedcopy, bit, fill),
                       exceptions |-> fin.exceptions,
                       firstexcept |-> firstexcept,
                       handed |-> fin.codedcopy, positions |-> fin.positions]

\* ----------------------------------------------------- uncompressblockPFOR

\* A walk that moves only by the gap code, without the + 1.
NextExceptionUnbiased(cur, gap) == cur + gap

\* Line 282: next_exception = cur + outputbegin[cur] + 1.
NextException(cur, gap) == cur + gap + 1

\* One iteration of the loop of lines 280-284, st = [out, i, cur, visited,
\* wild]; i and end are offsets into the buffer `inbuf` that holds the
\* exception values.  The iteration reads the gap code at cur, overwrites
\* it with the next exception value and moves cur past the gap.  An access
\* outside the block or the buffer is a wild access, and stops the model.
\* The position computed by the last iteration is never used: it is left
\* at cur.
walkstep(st, inbuf, end) ==
    IF st.i = end \/ st.wild THEN st
    ELSE IF st.cur >= BlockSize \/ st.i >= Len(inbuf)
    THEN [st EXCEPT !.wild = TRUE]
    ELSE [out     |-> [st.out EXCEPT ![st.cur + 1] = inbuf[st.i + 1]],
          i       |-> st.i + 1,
          cur     |-> IF st.i + 1 = end THEN st.cur
                      ELSE NextException(st.cur, Num(st.out[st.cur + 1])),
          visited |-> Append(st.visited, st.cur),
          wild    |-> FALSE]

\* uncompressblockPFOR(inputbegin, outputbegin, b, i, end_exception,
\* next_exception): the block written at outputbegin and the cursor i.
uncompressblockPFOR(packed, bit, inbuf, i, end, next_exception) ==
    LET body(st) == walkstep(st, inbuf, end)
    IN  Repeat(body,
               [out |-> unpackblock(packed, bit), i |-> i, cur |-> next_exception,
                visited |-> << >>, wild |-> FALSE],
               BlockSize + 1)

\* -------------------------------------------------------- determineBestBase

\* a/b <= c/d for a, c >= 0 and b, d > 0, by continued fractions (the
\* products of a cross-multiplication do not fit TLC's 32-bit integers).
RECURSIVE LeqFrac(_, _, _, _)
LeqFrac(a, b, c, d) ==
    IF (a \div b) # (c \div d) THEN (a \div b) < (c \div d)
    ELSE IF a % b = 0 THEN TRUE
    ELSE IF c % d = 0 THEN FALSE
    ELSE LeqFrac(d, c % d, b, a % b)

\* Lines 88-91: whether altErate = (Erate*128 - 1) / (Erate * (1U << bit))
\* exceeds Erate = n / samplesize, i.e. (128n - s) * s > n * n * 2^bit.
AltErateGreater(n, samplesize, bit) ==
    /\ n > 0
    /\ 128 * n > samplesize
    /\ bit < 31
    /\ ((128 * n - samplesize) * samplesize - 1) \div (n * n) >= 2 ^ bit

\* Line 92: thiscost = bit + Erate * 32, as the fraction <<num, den>>.
thiscost(n, samplesize, bit) ==
    IF AltErateGreater(n, samplesize, bit)
    THEN <<bit * (n * (2 ^ bit)) + 32 * (128 * n - samplesize), n * (2 ^ bit)>>
    ELSE <<bit * samplesize + 32 * n, samplesize>>

\* Line 93: thiscost <= bestcost.
CostImproves(cost, bestcost) == LeqFrac(cost[1], cost[2], bestcost[1], bestcost[2])

\* A scan that stops above width 0.
WidthAboveZero(bit) == bit > 0

\* Line 77: the loop condition b < 32 of the unsigned b counted down from
\* 31, which ends the loop when b wraps below 0.
WidthInRange(bit) == bit >= 0

\* Lines 77-97: the scan of bit = 31 down to 0.
RECURSIVE scanwidths(_, _, _, _, _, _)
scanwidths(freqs, samplesize, bit, exceptions, bestb, bestcost) ==
    IF ~WidthInRange(bit) THEN bestb
    ELSE LET numberofexceptions == exceptions + freqs[bit + 2]
             cost == thiscost(numberofexceptions, samplesize, bit)
         IN  IF CostImproves(cost, bestcost)
             THEN scanwidths(freqs, samplesize, bit - 1, numberofexceptions, bit, cost)
             ELSE scanwidths(freqs, samplesize, bit - 1, numberofexceptions, bestb, bestcost)

\* Line 69: the offsets rand() % (size - samplesize) can give.
SampleStarts(size) ==
    IF size > defaultsamplesize THEN 0 .. (size - defaultsamplesize - 1) ELSE {0}

\* determineBestBase(in, size), the sample starting at offset rstart.
\* freqs[n + 1] counts the sampled values of bit length n (lines 65-72).
determineBestBase(array, size, rstart) ==
    IF size = 0 THEN 0
    ELSE LET samplesize == IF size > defaultsamplesize THEN defaultsamplesize ELSE size
             lengths == SubSeq([k \in 1 .. samplesize |-> asmbits(array[rstart + k])],
                               1, samplesize)
             freqs == SubSeq([n \in 1 .. 33 |->
                                Cardinality({k \in 1 .. samplesize : lengths[k] = n - 1})],
                             1, 33)
         IN  scanwidths(freqs, samplesize, 31, 0, 32, <<32, 1>>)

\* ------------------------------------------------------------- the state

VARIABLES
    pc,          \* where the caller, encodeArray or decodeArray stands
    data,        \* the array given to encodeArray
    buf,         \* the compressed buffer: encodeArray's out, decodeArray's in
    recovered,   \* the array decodeArray writes
    enc,         \* the locals of encodeArray and __encodeArray
    dec,         \* the locals of decodeArray and __decodeArray
    slotfill,    \* what fastpack leaves in the slot of a value >= 2^b
    compressed,  \* the last call of compressblockPFOR: arguments and results
    walked,      \* the last call of uncompressblockPFOR: arguments and results
    blocklog,    \* per encoded block of the chunk: first exception, indices
    chunklog     \* per encoded chunk: where its parts lie in buf

vars == <<pc, data, buf, recovered, enc, dec, slotfill, compressed, walked,
          blocklog, chunklog>>

\* ------------------------------------------------------------- the inputs

MaxBlocks == 2

AllOnes == WordBits

\* The value at position k of a block without outliers.
BaseValue(kind, k) ==
    IF kind = "zero" THEN {}
    ELSE IF kind = "ramp3" THEN Bits(k % 8)
    ELSE IF kind = "ramp7" THEN Bits(k)
    ELSE Bits(k) \cup {31}

\* A block: a base pattern with the value val at the positions of `at`.
BlockOf(base, at, val) ==
    SubSeq([k \in 1 .. BlockSize |->
               IF (k - 1) \in at THEN val ELSE BaseValue(base, k - 1)],
           1, BlockSize)

InputBlocks ==
    { BlockOf("zero", {}, {}),
      BlockOf("zero", {5}, AllOnes),
      BlockOf("zero", {127}, Bits(1)),
      BlockOf("zero", {0, 127}, Bits(1000)),
      BlockOf("ramp3", {3, 70}, AllOnes),
      BlockOf("ramp7", {}, {}),
      BlockOf("ramp7", {64}, Bits(1048576)),
      BlockOf("big", {}, {}),
      BlockOf("big", {127}, AllOnes) }

\* The blocks that follow the first block of a longer array.
FollowBlocks ==
    { BlockOf("zero", {}, {}),
      BlockOf("ramp3", {3, 70}, AllOnes),
      BlockOf("ramp7", {64}, Bits(1048576)) }

\* The arrays of at most n blocks: a first block and its followers.
RECURSIVE Arrays(_)
Arrays(n) ==
    IF n = 0 THEN { << >> }
    ELSE LET shorter == Arrays(n - 1)
         IN  shorter \cup {a \o blk : a \in {x \in shorter : Len(x) = (n - 1) * BlockSize},
                                      blk \in IF n = 1 THEN InputBlocks ELSE FollowBlocks}

SlotFills == {"low", "zero", "ones"}

\* ------------------------------------------------------------ encodeArray

\* Line 175.
maxsize == 2 ^ (32 - blocksizeinbits - 1)

\* The words written at offset pos of a buffer that already reaches pos.
Put(buffer, pos, words) ==
    SubSeq(buffer, 1, pos) \o words
        \o SubSeq(buffer, pos + Len(words) + 1, Len(buffer))

NoCall == [called |-> FALSE]

\* An encodeArray that does not count the leading length word.
EncodeArrayBeginUncounted ==
    /\ pc = "encodeArray"
    /\ buf' = <<Bits(Len(data))>>
    /\ enc' = [i |-> 0, totalnvalue |-> 0, out |-> 1]
    /\ pc' = "encodeArray_loop"
    /\ UNCHANGED <<data, recovered, dec, slotfill, compressed, walked, blocklog, chunklog>>

\* Lines 173-176.
EncodeArrayBegin ==
    /\ pc = "encodeArray"
    /\ buf' = <<Bits(Len(data))>>
    /\ enc' = [i |-> 0, totalnvalue |-> 1, out |-> 1]
    /\ pc' = "encodeArray_loop"
    /\ UNCHANGED <<data, recovered, dec, slotfill, compressed, walked, blocklog, chunklog>>

\* A chunk length that ignores the shorter tail.
ChunkLengthFull(i, len) == maxsize

\* Lines 178-182: the length of the chunk at offset i.
ChunkLength(i, len) == IF i + maxsize > len THEN len - i ELSE maxsize

\* Lines 177-185 and 218-227: the loop takes the next chunk and calls
\* __encodeArray, which picks the width and writes the chunk's two words.
EnterChunk(b) ==
    LET l == ChunkLength(enc.i, Len(data))
    IN  /\ buf' = Put(buf, enc.out, <<Bits(l), Bits(b)>>)
        /\ enc' = [i |-> enc.i, totalnvalue |-> enc.totalnvalue, l |-> l, b |-> b,
                   k |-> 0, exceptions |-> << >>, initout |-> enc.out,
                   out |-> enc.out + 2, in |-> enc.i]
        /\ pc' = "__encodeArray_block"
        /\ blocklog' = << >>
        /\ UNCHANGED <<data, recovered, dec, slotfill, compressed, walked, chunklog>>

EncodeChunkBegin ==
    /\ pc = "encodeArray_loop"
    /\ enc.i < Len(data)
    /\ LET l == ChunkLength(enc.i, Len(data))
       IN  \E rstart \in SampleStarts(l) :
               EnterChunk(determineBestBase(SubSeq(data, enc.i + 1, enc.i + l), l, rstart))

\* Lines 234-235 and 254-255.
bitsforfirstexcept == blocksizeinbits

\* A mask one bit short, which cannot hold BlockSize.
firstexceptmaskShort == Bits(BlockSize - 1)

firstexceptmask == Bits((2 ^ blocksizeinbits) - 1)

\* A header that ORs the cumulative count in without shifting it.
HeaderWordUnshifted(firstexcept, exceptindex) ==
    (Bits(firstexcept) \cap firstexceptmask) \cup Bits(exceptindex)

\* Lines 237-238: (firstexcept & firstexceptmask) | (exceptindex << bitsforfirstexcept),
\* stored in a uint32_t.
HeaderWord(firstexcept, exceptindex) ==
    (Bits(firstexcept) \cap firstexceptmask)
        \cup ShiftLeft(Bits(exceptindex), bitsforfirstexcept)

\* Line 232: the packed words of one block.
BlockWords(b) == (BlockSize * b) \div 32

\* Lines 228-239: one block of the chunk.
EncodeBlock ==
    /\ pc = "__encodeArray_block"
    /\ enc.k < enc.l \div BlockSize
    /\ LET block == SubSeq(data, enc.in + 1, enc.in + BlockSize)
           c == compressblockPFOR(block, enc.b, enc.exceptions, slotfill)
           exceptindex == Len(c.exceptions)
           header == HeaderWord(c.firstexcept, exceptindex)
       IN  /\ buf' = Put(Put(buf, enc.out, <<header>>), enc.out + 1, c.output)
           /\ enc' = [enc EXCEPT !.k = enc.k + 1,
                                 !.exceptions = c.exceptions,
                                 !.out = enc.out + 1 + BlockWords(enc.b),
                                 !.in = enc.in + BlockSize]
           /\ compressed' = [called |-> TRUE, block |-> block, b |-> enc.b,
                             handed |-> c.handed, firstexcept |-> c.firstexcept,
                             positions |-> c.positions,
                             before |-> Len(enc.exceptions),
                             exceptions |-> c.exceptions,
                             header |-> header, headerat |-> enc.out]
           /\ blocklog' = Append(blocklog,
                                 [firstexcept |-> c.firstexcept,
                                  before |-> Len(enc.exceptions),
                                  exceptindex |-> exceptindex,
                                  positions |-> c.positions])
    /\ UNCHANGED <<pc, data, recovered, dec, slotfill, walked, chunklog>>

\* Lines 240-243 and 186-188: the exception values follow the blocks, and
\* the chunk's word count is added to the total.
EncodeChunkEnd ==
    /\ pc = "__encodeArray_block"
    /\ enc.k = enc.l \div BlockSize
    /\ LET end == enc.out + Len(enc.exceptions)
           thisnvalue == end - enc.initout
       IN  /\ buf' = Put(buf, enc.out, enc.exceptions)
           /\ enc' = [i |-> enc.i + maxsize,
                      totalnvalue |-> enc.totalnvalue + thisnvalue,
                      out |-> enc.initout + thisnvalue]
           /\ chunklog' = Append(chunklog,
                                 [start |-> enc.initout, l |-> enc.l, b |-> enc.b,
                                  firstexception |-> enc.out,
                                  howmanyexcept |-> Len(enc.exceptions),
                                  end |-> end, nvalue |-> thisnvalue])
    /\ pc' = "encodeArray_loop"
    /\ UNCHANGED <<data, recovered, dec, slotfill, compressed, walked, blocklog>>

\* Line 190.
EncodeArrayEnd ==
    /\ pc = "encodeArray_loop"
    /\ enc.i >= Len(data)
    /\ enc' = [nvalue |-> enc.totalnvalue]
    /\ pc' = "decodeArray"
    /\ UNCHANGED <<data, buf, recovered, dec, slotfill, compressed, walked, blocklog, chunklog>>

\* ------------------------------------------------------------ decodeArray

\* Lines 194-199: the total length; a zero length returns at once.
DecodeArrayBegin ==
    /\ pc = "decodeArray"
    /\ LET nvalue == Num(buf[1])
       IN  IF nvalue = 0
           THEN /\ dec' = [nvalue |-> 0, in |-> 1, returned |-> 1]
                /\ pc' = "done"
           ELSE /\ dec' = [nvalue |-> nvalue, in |-> 1, totalnvalue |-> 0]
                /\ pc' = "decodeArray_loop"
    /\ recovered' = << >>
    /\ UNCHANGED <<data, buf, enc, slotfill, compressed, walked, blocklog, chunklog>>

\* An exception start that leaves the block headers out.
ExceptStartHeaderless(in, nvalue, b) == in + ((nvalue * b) \div 32)

\* Lines 252-253: where the chunk's exception values start, `in` being the
\* offset after the chunk's two words.
ExceptStart(in, nvalue, b) == in + ((nvalue * b) \div 32) + (nvalue \div BlockSize)

\* Lines 200-204 and 248-257: the loop calls __decodeArray, which reads the
\* chunk's length and width and locates its exception values.
DecodeChunkBegin ==
    /\ pc = "decodeArray_loop"
    /\ dec.totalnvalue < dec.nvalue
    /\ LET nvalue == Num(buf[dec.in + 1])
           b == Num(buf[dec.in + 2])
           except == ExceptStart(dec.in + 2, nvalue, b)
       IN  dec' = [nvalue |-> dec.nvalue, totalnvalue |-> dec.totalnvalue,
                   initin |-> dec.in, in |-> dec.in + 2, thisnvalue |-> nvalue,
                   b |-> b, except |-> except, initexcept |-> except,
                   endexceptpointer |-> except, k |-> 0]
    /\ pc' = "__decodeArray_block"
    /\ UNCHANGED <<data, buf, recovered, enc, slotfill, compressed, walked, blocklog, chunklog>>

\* Lines 261-262: the two fields of a block header.
HeaderFirstExcept(header) == Num(header \cap firstexceptmask)

HeaderExceptIndex(header) == Num(ShiftRight(header, bitsforfirstexcept))

\* Lines 258-268: one block of the chunk.  A wild access ends the run.
DecodeBlock ==
    /\ pc = "__decodeArray_block"
    /\ dec.k < dec.thisnvalue \div BlockSize
    /\ LET header == buf[dec.in + 1]
           firstexcept == HeaderFirstExcept(header)
           exceptindex == HeaderExceptIndex(header)
           endexceptpointer == dec.initexcept + exceptindex
           packed == SubSeq(buf, dec.in + 2, dec.in + 1 + BlockWords(dec.b))
           u == uncompressblockPFOR(packed, dec.b, buf, dec.except,
                                    endexceptpointer, firstexcept)
       IN  /\ recovered' = recovered \o u.out
           /\ dec' = [dec EXCEPT !.in = dec.in + 1 + BlockWords(dec.b),
                                 !.endexceptpointer = endexceptpointer,
                                 !.except = u.i,
                                 !.k = dec.k + 1]
           /\ walked' = [called |-> TRUE, k |-> dec.k, b |-> dec.b,
                         firstexcept |-> firstexcept,
                         exceptindex |-> exceptindex,
                         entry |-> dec.except - dec.initexcept,
                         exit |-> u.i - dec.initexcept,
                         visited |-> u.visited, wild |-> u.wild, out |-> u.out]
           /\ pc' = IF u.wild THEN "wild" ELSE pc
    /\ UNCHANGED <<data, buf, enc, slotfill, compressed, blocklog, chunklog>>

\* Lines 271 and 205-209: __decodeArray returns endexceptpointer, and the
\* loop adds the chunk's length to the total.
DecodeChunkEnd ==
    /\ pc = "__decodeArray_block"
    /\ dec.k = dec.thisnvalue \div BlockSize
    /\ dec' = [nvalue |-> dec.nvalue,
               totalnvalue |-> dec.totalnvalue + dec.thisnvalue,
               in |-> dec.endexceptpointer,
               except |-> dec.initexcept, initin |-> dec.initin]
    /\ pc' = "decodeArray_loop"
    /\ UNCHANGED <<data, buf, recovered, enc, slotfill, compressed, walked, blocklog, chunklog>>

\* Lines 213-214.
DecodeArrayEnd ==
    /\ pc = "decodeArray_loop"
    /\ dec.totalnvalue >= dec.nvalue
    /\ dec' = [nvalue |-> dec.totalnvalue, in |-> dec.in, returned |-> dec.in]
    /\ pc' = "done"
    /\ UNCHANGED <<data, buf, recovered, enc, slotfill, compressed, walked, blocklog, chunklog>>

\* ------------------------------------------------------- the specification

Init ==
    /\ pc = "encodeArray"
    /\ data \in Arrays(MaxBlocks)
    /\ slotfill \in SlotFills
    /\ buf = << >>
    /\ recovered = << >>
    /\ enc = [i |-> 0]
    /\ dec = [in |-> 0]
    /\ compressed = NoCall
    /\ walked = NoCall
    /\ blocklog = << >>
    /\ chunklog = << >>

Decode ==
    \/ DecodeArrayBegin
    \/ DecodeChunkBegin
    \/ DecodeBlock
    \/ DecodeChunkEnd
    \/ DecodeArrayEnd

Next ==
    \/ EncodeArrayBegin
    \/ EncodeChunkBegin
    \/ EncodeBlock
    \/ EncodeChunkEnd
    \/ EncodeArrayEnd
    \/ Decode

Spec == Init /\ [][Next]_vars

\* ------------------------------------------- the codec at every bit width

\* compressblockPFOR and uncompressblockPFOR take the width as a parameter;
\* here the chunk is written at each width 0..32 instead of the width that
\* determineBestBase picks, the rest of the codec unchanged.
MaxForcedBlocks == 1

ForcedFollowBlocks == { BlockOf("ramp3", {3, 70}, AllOnes) }

RECURSIVE ForcedArrays(_)
ForcedArrays(n) ==
    IF n = 0 THEN { << >> }
    ELSE LET shorter == ForcedArrays(n - 1)
         IN  shorter \cup {a \o blk : a \in {x \in shorter : Len(x) = (n - 1) * BlockSize},
                                      blk \in IF n = 1 THEN InputBlocks
                                              ELSE ForcedFollowBlocks}

EncodeChunkBeginForced ==
    /\ pc = "encodeArray_loop"
    /\ enc.i < Len(data)
    /\ \E b \in 0 .. 32 : EnterChunk(b)

InitForced ==
    /\ pc = "encodeArray"
    /\ data \in ForcedArrays(MaxForcedBlocks)
    /\ slotfill \in SlotFills
    /\ buf = << >>
    /\ recovered = << >>
    /\ enc = [i |-> 0]
    /\ dec = [in |-> 0]
    /\ compressed = NoCall
    /\ walked = NoCall
    /\ blocklog = << >>
    /\ chunklog = << >>

NextForced ==
    \/ EncodeArrayBegin
    \/ EncodeChunkBeginForced
    \/ EncodeBlock
    \/ EncodeChunkEnd
    \/ EncodeArrayEnd
    \/ Decode

SpecForced == InitForced /\ [][NextForced]_vars

\* ------------------------------------------- arrays longer than one chunk

\* encodeArray and decodeArray on arrays of up to MaxChunks * maxsize values
\* and a tail.  Such an array is kept as its length, data = [len |-> n], and
\* the buffer holds, by offset, the words that decide where the drivers go:
\* the total length, each chunk's length and width, and the header of each
\* chunk's last block, whose cumulative index is the chunk's exception
\* count.  Each call of __encodeArray and __decodeArray is one step.
MaxChunks == 2

MaxTailBlocks == 1

LongLengths ==
    {m * maxsize + r * BlockSize : m \in 0 .. MaxChunks, r \in 0 .. MaxTailBlocks}

\* The widths and exception counts tried for a chunk of l values.
ChunkWidths == {0, 7, 32}

ChunkExceptions(l, b) == IF b = 32 THEN {0} ELSE {0, 1, l}

\* The offset of the header of the last block of a chunk whose first block
\* header is at offset `first` (lines 228-233 and 258-267).
LastHeader(first, l, b) == first + ((l \div BlockSize) - 1) * (1 + BlockWords(b))

\* Lines 173-176.
LongEncodeArrayBegin ==
    /\ pc = "encodeArray"
    /\ buf' = (1 :> Bits(data.len))
    /\ enc' = [i |-> 0, totalnvalue |-> 1, out |-> 1]
    /\ pc' = "encodeArray_loop"
    /\ UNCHANGED <<data, recovered, dec, slotfill, compressed, walked, blocklog, chunklog>>

\* Lines 177-189 with the call of __encodeArray (lines 218-244): the chunk
\* written at width b with e exception values takes
\* 2 + (l / BlockSize) * (1 + BlockWords(b)) + e words.
LongEncodeChunk ==
    /\ pc = "encodeArray_loop"
    /\ enc.i < data.len
    /\ LET l == ChunkLength(enc.i, data.len)
       IN  \E b \in ChunkWidths : \E e \in ChunkExceptions(l, b) :
               LET firstexception == enc.out + 2 + (l \div BlockSize) * (1 + BlockWords(b))
                   thisnvalue == (firstexception + e) - enc.out
                   header == HeaderWord(IF e = 0 THEN BlockSize ELSE 0, e)
               IN  /\ buf' = buf @@ ((enc.out + 1) :> Bits(l))
                                 @@ ((enc.out + 2) :> Bits(b))
                                 @@ ((LastHeader(enc.out + 2, l, b) + 1) :> header)
                   /\ enc' = [i |-> enc.i + maxsize,
                              totalnvalue |-> enc.totalnvalue + thisnvalue,
                              out |-> enc.out + thisnvalue]
                   /\ chunklog' = Append(chunklog,
                                         [start |-> enc.out, at |-> enc.i, l |-> l,
                                          b |-> b, firstexception |-> firstexception,
                                          howmanyexcept |-> e,
                                          end |-> enc.out + thisnvalue,
                                          nvalue |-> thisnvalue])
    /\ UNCHANGED <<pc, data, recovered, dec, slotfill, compressed, walked, blocklog>>

\* Line 190.
LongEncodeArrayEnd ==
    /\ pc = "encodeArray_loop"
    /\ enc.i >= data.len
    /\ enc' = [nvalue |-> enc.totalnvalue]
    /\ pc' = "decodeArray"
    /\ UNCHANGED <<data, buf, recovered, dec, slotfill, compressed, walked, blocklog, chunklog>>

\* Lines 194-199.
LongDecodeArrayBegin ==
    /\ pc = "decodeArray"
    /\ LET nvalue == Num(buf[1])
       IN  IF nvalue = 0
           THEN /\ dec' = [nvalue |-> 0, in |-> 1, returned |-> 1, chunks |-> << >>]
                /\ pc' = "done"
           ELSE /\ dec' = [nvalue |-> nvalue, in |-> 1, totalnvalue |-> 0,
                           chunks |-> << >>]
                /\ pc' = "decodeArray_loop"
    /\ UNCHANGED <<data, buf, recovered, enc, slotfill, compressed, walked, blocklog, chunklog>>

\* Lines 200-209 with the call of __decodeArray (lines 246-272), which
\* returns initexcept plus the cumulative index of the last block's header.
\* dec.chunks lists the chunks read: where in the buffer, where in the
\* output, and how long.
LongDecodeChunk ==
    /\ pc = "decodeArray_loop"
    /\ dec.totalnvalue < dec.nvalue
    /\ LET thisnvalue == Num(buf[dec.in + 1])
           b == Num(buf[dec.in + 2])
           initexcept == ExceptStart(dec.in + 2, thisnvalue, b)
           header == buf[LastHeader(dec.in + 2, thisnvalue, b) + 1]
           endexceptpointer == initexcept + HeaderExceptIndex(header)
       IN  dec' = [nvalue |-> dec.nvalue,
                   totalnvalue |-> dec.totalnvalue + thisnvalue,
                   in |-> endexceptpointer,
                   chunks |-> Append(dec.chunks,
                                     [start |-> dec.in, at |-> dec.totalnvalue,
                                      l |-> thisnvalue])]
    /\ UNCHANGED <<pc, data, buf, recovered, enc, slotfill, compressed, walked, blocklog, chunklog>>

\* Lines 213-214.
LongDecodeArrayEnd ==
    /\ pc = "decodeArray_loop"
    /\ dec.totalnvalue >= dec.nvalue
    /\ dec' = [nvalue |-> dec.totalnvalue, in |-> dec.in, returned |-> dec.in,
               chunks |-> dec.chunks]
    /\ pc' = "done"
    /\ UNCHANGED <<data, buf, recovered, enc, slotfill, compressed, walked, blocklog, chunklog>>

InitChunk ==
    /\ pc = "encodeArray"
    /\ data \in {[len |-> n] : n \in LongLengths}
    /\ slotfill = "low"
    /\ buf = << >>
    /\ recovered = << >>
    /\ enc = [i |-> 0]
    /\ dec = [in |-> 0]
    /\ compressed = NoCall
    /\ walked = NoCall
    /\ blocklog = << >>
    /\ chunklog = << >>

NextChunk ==
    \/ LongEncodeArrayBegin
    \/ LongEncodeChunk
    \/ LongEncodeArrayEnd
    \/ LongDecodeArrayBegin
    \/ LongDecodeChunk
    \/ LongDecodeArrayEnd

SpecChunk == InitChunk /\ [][NextChunk]_vars

\* ------------------------------------------------- properties of the codec

\* v >= 2^bit, the test of line 116.
IsException(v, bit) == bit < 32 /\ AtLeastMaxgap(v, bit)

AllZeroInput == Len(data) > 0 /\ \A k \in 1 .. Len(data) : data[k] = {}

\* C1: encodeArray followed by decodeArray on the words it produced gives
\* back a value count equal to the input length and an output equal to the
\* input, element for element; no block's walk leaves the block or the
\* buffer on the way.
RoundTrip ==
    /\ pc # "wild"
    /\ (pc = "done" /\ Len(data) > 0) =>
           /\ dec.nvalue = Len(data)
           /\ Len(recovered) = Len(data)
           /\ \A k \in 1 .. Len(data) : recovered[k] = data[k]

\* An array of more than one block, written at a width below 32 with
\* exceptions, has been decoded.
RoundTripWitness ==
    /\ pc = "done"
    /\ Len(data) > BlockSize
    /\ Len(chunklog) = 1
    /\ chunklog[1].b \in 1 .. 31
    /\ chunklog[1].howmanyexcept > 2
    /\ recovered = data

\* C5: for an input of length zero encodeArray writes the single word 0 and
\* reports a count of 1; decodeArray on that word reports 0 values, writes
\* nothing and returns the cursor one word past the start.
ZeroLength ==
    Len(data) = 0 =>
        /\ pc \in {"encodeArray_loop", "decodeArray", "done"} => buf = << {} >>
        /\ pc \in {"decodeArray", "done"} => enc.nvalue = 1
        /\ pc = "done" => /\ dec.nvalue = 0
                          /\ dec.returned = 1
                          /\ recovered = << >>

ZeroLengthWitness ==
    /\ pc = "done"
    /\ Len(data) = 0
    /\ Len(buf) = 1
    /\ dec.returned = 1

\* C6: for a nonzero-length input whose values are all 0 the chunk is
\* written at width 0, no exception value is emitted, every block header
\* has the first-exception field BlockSize and the cumulative index 0, and
\* the chunk takes 2 + len / BlockSize words.
AllZeroChunk ==
    AllZeroInput =>
        /\ pc = "__encodeArray_block" => (enc.b = 0 /\ enc.exceptions = << >>)
        /\ \A n \in 1 .. Len(blocklog) :
               blocklog[n].firstexcept = BlockSize /\ blocklog[n].exceptindex = 0
        /\ compressed.called =>
               /\ buf[compressed.headerat + 1] = compressed.header
               /\ HeaderFirstExcept(compressed.header) = BlockSize
               /\ HeaderExceptIndex(compressed.header) = 0
        /\ \A n \in 1 .. Len(chunklog) :
               /\ chunklog[n].b = 0
               /\ chunklog[n].howmanyexcept = 0
               /\ chunklog[n].nvalue = 2 + (chunklog[n].l \div BlockSize)

AllZeroChunkWitness ==
    /\ pc = "done"
    /\ AllZeroInput
    /\ Len(data) > BlockSize
    /\ Len(chunklog) = 1
    /\ chunklog[1].nvalue = 2 + (Len(data) \div BlockSize)

\* C7: the exception start the decoder computes for a chunk is the position
\* at which the encoder wrote the chunk's first exception value, the cursor
\* __decodeArray returns is the end of the chunk, and so the cursor
\* decodeArray returns is the word count encodeArray reported.
ExceptionRegion ==
    /\ pc = "__decodeArray_block" =>
           \E n \in 1 .. Len(chunklog) :
               /\ chunklog[n].start = dec.initin
               /\ chunklog[n].firstexception = dec.initexcept
    /\ (pc = "decodeArray_loop" /\ dec.totalnvalue > 0) =>
           \E n \in 1 .. Len(chunklog) :
               /\ chunklog[n].start = dec.initin
               /\ chunklog[n].end = dec.in
    /\ pc = "done" => dec.returned = enc.nvalue

ExceptionRegionWitness ==
    /\ pc = "done"
    /\ Len(data) > BlockSize
    /\ Len(chunklog) = 1
    /\ chunklog[1].b \in 1 .. 31
    /\ chunklog[1].howmanyexcept > 0
    /\ dec.returned = chunklog[1].end

\* C9: in decoding, a block's walk starts with the exception cursor at the
\* previous block's cumulative index (0 for the first block), takes the
\* exception values the encoder emitted for that block, at the positions
\* the encoder emitted them from, all inside the block, and stops with the
\* cursor at the block header's cumulative index; for a block without
\* exceptions the walk writes nothing and leaves the cursor where it was.
ChainWalk ==
    walked.called =>
        LET r == blocklog[walked.k + 1]
        IN  /\ ~walked.wild
            /\ walked.entry = IF walked.k = 0 THEN 0
                              ELSE blocklog[walked.k].exceptindex
            /\ walked.entry = r.before
            /\ walked.exceptindex = r.exceptindex
            /\ walked.exit = walked.exceptindex
            /\ walked.visited = r.positions
            /\ \A j \in 1 .. Len(walked.visited) :
                   walked.visited[j] \in 0 .. (BlockSize - 1)
            /\ r.exceptindex = r.before =>
                   (walked.visited = << >> /\ walked.exit = walked.entry)

\* The second block of a chunk has been walked, both blocks with exceptions.
ChainWalkWitness ==
    /\ walked.called
    /\ walked.k = 1
    /\ walked.entry > 0
    /\ walked.exit > walked.entry + 1
    /\ Len(walked.visited) = walked.exit - walked.entry

\* C10: the positions compressblockPFOR emits exception values from are
\* strictly increasing and lie between the first exception and the end of
\* the block, so a block emits at most BlockSize values and a chunk at most
\* its length; the chunk is no longer than maxsize, the header's high field
\* reads back as the exact cumulative count, as it does for the largest
\* count a chunk of maxsize values can reach, and that count never
\* decreases from one block to the next.
ExceptionCounts ==
    /\ compressed.called =>
           LET p == compressed.positions
           IN  /\ \A j \in 1 .. Len(p) :
                      p[j] \in compressed.firstexcept .. (BlockSize - 1)
               /\ \A j \in 1 .. (Len(p) - 1) : p[j] < p[j + 1]
               /\ Len(p) <= BlockSize
               /\ Len(compressed.exceptions) = compressed.before + Len(p)
               /\ HeaderExceptIndex(compressed.header) = Len(compressed.exceptions)
    /\ pc = "__encodeArray_block" =>
           /\ Len(enc.exceptions) <= enc.k * BlockSize
           /\ Len(enc.exceptions) <= enc.l
           /\ enc.l <= maxsize
    /\ \A n \in 1 .. Len(blocklog) :
           /\ blocklog[n].before <= blocklog[n].exceptindex
           /\ n > 1 => blocklog[n].before = blocklog[n - 1].exceptindex
    /\ \A n \in 1 .. Len(chunklog) : chunklog[n].howmanyexcept <= chunklog[n].l
    /\ \A e \in {maxsize - 1, maxsize} :
           HeaderExceptIndex(HeaderWord(BlockSize, e)) = e

\* A later block of a chunk has added exceptions to the earlier ones.
ExceptionCountsWitness ==
    /\ compressed.called
    /\ compressed.before > 0
    /\ Len(compressed.positions) > 1
    /\ HeaderExceptIndex(compressed.header) = compressed.before + Len(compressed.positions)

\* --------------------------------- properties of the codec at every width

\* The statement of C2 as the specification has it: every value handed to
\* packblock at a width b < 32 is below 2^b.
PackPrecondition ==
    (compressed.called /\ compressed.b < 32) =>
        \A k \in 1 .. BlockSize : ~IsException(compressed.handed[k], compressed.b)

\* C2: of the values compressblockPFOR hands to packblock at a width
\* b < 32, every one is below 2^b except the one in the slot of the last
\* exception of the chain, which is never overwritten with a gap code and
\* still holds the block's value there, a value of at least 2^b; a block
\* without exceptions is handed over with every value below 2^b.
PackPreconditionButLast ==
    (compressed.called /\ compressed.b < 32) =>
        LET p == compressed.positions
            last == IF p = << >> THEN BlockSize ELSE p[Len(p)]
        IN  /\ \A k \in 0 .. (BlockSize - 1) :
                   k # last => ~IsException(compressed.handed[k + 1], compressed.b)
            /\ p # << >> =>
                   /\ compressed.handed[last + 1] = compressed.block[last + 1]
                   /\ IsException(compressed.handed[last + 1], compressed.b)

\* A block with a chain of at least three exceptions has been handed over.
PackPreconditionWitness ==
    /\ compressed.called
    /\ compressed.b < 32
    /\ Len(compressed.positions) > 2
    /\ IsException(compressed.handed[compressed.positions[Len(compressed.positions)] + 1],
                   compressed.b)

\* C3: at a width b in 0..6 the chain of a block links positions at most
\* 2^b apart: every value of at least 2^b is in the chain, a position of
\* the chain whose value is below 2^b (a compulsory exception) lies exactly
\* 2^b after the position before it and before a real exception further
\* away than that, the value emitted for every position of the chain is the
\* block's original value there, and uncompressblockPFOR restores every
\* value of the block.
CompulsoryChain ==
    /\ (compressed.called /\ compressed.b \in 0 .. 6) =>
           LET p == compressed.positions
               b == compressed.b
               blk == compressed.block
           IN  /\ \A k \in 0 .. (BlockSize - 1) :
                      IsException(blk[k + 1], b) => \E j \in 1 .. Len(p) : p[j] = k
               /\ \A j \in 2 .. Len(p) :
                      /\ p[j] > p[j - 1]
                      /\ p[j] - p[j - 1] <= 2 ^ b
                      /\ ~IsException(blk[p[j] + 1], b) =>
                             /\ p[j] = p[j - 1] + (2 ^ b)
                             /\ \E k \in (p[j] + 1) .. (BlockSize - 1) :
                                    IsException(blk[k + 1], b)
                             /\ \A k \in (p[j - 1] + 1) .. p[j] :
                                    ~IsException(blk[k + 1], b)
               /\ \A j \in 1 .. Len(p) :
                      compressed.exceptions[compressed.before + j] = blk[p[j] + 1]
    /\ (walked.called /\ walked.b \in 0 .. 6) =>
           /\ ~walked.wild
           /\ walked.out = SubSeq(data, walked.k * BlockSize + 1,
                                  (walked.k + 1) * BlockSize)

\* A block whose chain needed a compulsory exception has been restored.
CompulsoryChainWitness ==
    /\ compressed.called
    /\ compressed.b \in 0 .. 6
    /\ \E j \in 2 .. Len(compressed.positions) :
           ~IsException(compressed.block[compressed.positions[j] + 1], compressed.b)
    /\ walked.called
    /\ walked.k = (Len(data) \div BlockSize) - 1
    /\ walked.out = compressed.block

\* C4: at every width 0..32 compressblockPFOR returns the smallest position
\* whose value is at least 2^b, or BlockSize when there is none (always at
\* width 32); the header word the encoder writes carries that value in its
\* low field, BlockSize included, and the decoder reads the same value back.
FirstExceptionField ==
    /\ compressed.called =>
           LET real == {k \in 0 .. (BlockSize - 1) :
                           IsException(compressed.block[k + 1], compressed.b)}
           IN  /\ compressed.firstexcept =
                      IF real = {} THEN BlockSize
                      ELSE CHOOSE k \in real : \A x \in real : k <= x
               /\ buf[compressed.headerat + 1] = compressed.header
               /\ HeaderFirstExcept(compressed.header) = compressed.firstexcept
    /\ walked.called => walked.firstexcept = blocklog[walked.k + 1].firstexcept

\* The decoder has read the value BlockSize from the header of a block
\* packed at a width below 32.
FirstExceptionFieldWitness ==
    /\ walked.called
    /\ walked.b < 32
    /\ walked.firstexcept = BlockSize
    /\ blocklog[walked.k + 1].firstexcept = BlockSize

\* ------------------------------------------- properties of long arrays

\* C8: encodeArray cuts the input into consecutive chunks that cover it in
\* order without overlap, each a nonzero multiple of BlockSize no longer
\* than maxsize, only the last one shorter, and lays them out one after the
\* other; decodeArray reads exactly those chunks, its cumulative count
\* never exceeds the total length in the first word and ends equal to it,
\* and its cursor ends on the word count encodeArray reported.
Chunking ==
    /\ \A n \in 1 .. Len(chunklog) :
           LET c == chunklog[n]
           IN  /\ c.l \in 1 .. maxsize
               /\ c.l % BlockSize = 0
               /\ c.at = IF n = 1 THEN 0 ELSE chunklog[n - 1].at + chunklog[n - 1].l
               /\ c.start = IF n = 1 THEN 1 ELSE chunklog[n - 1].end
               /\ c.at + c.l <= data.len
               /\ c.l < maxsize => c.at + c.l = data.len
    /\ pc \in {"decodeArray", "decodeArray_loop", "done"} =>
           /\ buf[1] = Bits(data.len)
           /\ data.len = IF chunklog = << >> THEN 0
                         ELSE chunklog[Len(chunklog)].at + chunklog[Len(chunklog)].l
    /\ pc \in {"decodeArray_loop", "done"} =>
           /\ Len(dec.chunks) <= Len(chunklog)
           /\ \A n \in 1 .. Len(dec.chunks) :
                  /\ dec.chunks[n].start = chunklog[n].start
                  /\ dec.chunks[n].at = chunklog[n].at
                  /\ dec.chunks[n].l = chunklog[n].l
    /\ pc = "decodeArray_loop" =>
           /\ dec.totalnvalue <= dec.nvalue
           /\ dec.nvalue = data.len
           /\ dec.in = IF dec.chunks = << >> THEN 1
                       ELSE chunklog[Len(dec.chunks)].end
    /\ pc = "done" =>
           /\ Len(dec.chunks) = Len(chunklog)
           /\ dec.nvalue = data.len
           /\ dec.returned = enc.nvalue

\* An array of two full chunks and a tail has been encoded and decoded.
ChunkingWitness ==
    /\ pc = "done"
    /\ data.len > 2 * maxsize
    /\ Len(dec.chunks) = 3
    /\ chunklog[1].l = maxsize
    /\ chunklog[3].l < maxsize
    /\ chunklog[2].howmanyexcept = maxsize

====
